---- MODULE Spec2Model ----
(***************************************************************************)
(* The appointment subsystem of the healthcare backend: the Appointment    *)
(* table, the repository with its by-id and availability caches, and the   *)
(* AppointmentService operations (backend/appointments, backend/common).   *)
(* Times are minutes since an arbitrary epoch.  A dict of keyword          *)
(* arguments is a function whose DOMAIN is the set of keys supplied.       *)
(***************************************************************************)
EXTENDS Integers, FiniteSets, Sequences, TLC

VARIABLES
    appts,      \* the Appointment table: id -> row (DOMAIN = stored ids)
    idCache,    \* django cache, keys "appointment:id:<id>": id -> cached row
    availCache, \* django cache, keys "availability:...": key -> [value, expires]
    schedCache, \* django cache, keys "schedule:<practitioner>:<date>": key -> [value, expires]
    practitioners, \* the Practitioner table: id -> row
    pracCache,  \* django cache, keys "practitioner:id:<id>": id -> cached row
    reports,    \* the Report table: id -> row
    call,       \* the generate_report call in progress, or [pc |-> "idle"]
    invoices,   \* the Invoice table: id -> row
    settings,   \* the ClinicSettings table: pk -> row
    reqs,       \* concurrent requests in progress: request -> [pc, ...]
    gone,       \* the ids of the patients that have been deleted
    now,        \* timezone.now()
    nextId,     \* the next fresh primary key (uuid4 never repeats)
    ret         \* outcome of the last service call: [op, res]

vars == <<appts, idCache, availCache, schedCache, practitioners, pracCache,
          reports, call, invoices, settings, reqs, gone, now, nextId, ret>>

\* the appointment subsystem, and the tables of the other applications
apptVars == <<appts, idCache, availCache, schedCache, now, nextId>>
later == <<settings, reqs, gone>>
others == <<practitioners, pracCache, reports, call, invoices, later>>

-----------------------------------------------------------------------------
(* Bounds *)

\* primary keys handed out: ids are 1..MaxAppts
MaxPractitioners == 2
MaxReports == 2
MaxInvoices == 2
MaxAppts == 2

\* exclude_appointment_id = None
NoId == 0

-----------------------------------------------------------------------------
(* Program constants *)

GraceMinutes == 5
MaxDurationHours == 24
CheckInWindowMinutes == 30
MinutesPerDay == 1440
CacheTtlSeconds == 900
\* DecimalField(max_digits=10, decimal_places=2): eight digits before the point
MaxWholeUnits == 99999999

Statuses ==
    {"proposed", "pending", "booked", "arrived", "fulfilled", "cancelled",
     "noshow", "entered-in-error", "checked-in", "waitlist"}

ActiveStatuses == {"proposed", "pending", "booked", "arrived", "checked-in"}

CancellableStatuses == {"proposed", "pending", "booked", "waitlist"}

\* mutant: a cancelled appointment may be booked again
valid_transitions_reopen ==
    [s \in Statuses |->
        CASE s = "proposed"   -> {"pending", "booked", "cancelled", "entered-in-error"}
          [] s = "pending"    -> {"booked", "cancelled", "waitlist", "entered-in-error"}
          [] s = "booked"     -> {"arrived", "checked-in", "fulfilled", "cancelled", "noshow"}
          [] s = "arrived"    -> {"fulfilled", "cancelled", "noshow"}
          [] s = "checked-in" -> {"arrived", "fulfilled", "cancelled", "noshow"}
          [] s = "waitlist"   -> {"pending", "booked", "cancelled"}
          [] s = "cancelled"  -> {"booked"}
          [] OTHER            -> {}]

valid_transitions ==
    [s \in Statuses |->
        CASE s = "proposed"   -> {"pending", "booked", "cancelled", "entered-in-error"}
          [] s = "pending"    -> {"booked", "cancelled", "waitlist", "entered-in-error"}
          [] s = "booked"     -> {"arrived", "checked-in", "fulfilled", "cancelled", "noshow"}
          [] s = "arrived"    -> {"fulfilled", "cancelled", "noshow"}
          [] s = "checked-in" -> {"arrived", "fulfilled", "cancelled", "noshow"}
          [] s = "waitlist"   -> {"pending", "booked", "cancelled"}
          [] OTHER            -> {}]

-----------------------------------------------------------------------------
(* Helpers on dicts and rows *)

Has(data, k) == k \in DOMAIN data

Get(data, k, default) == IF k \in DOMAIN data THEN data[k] ELSE default

\* setattr(instance, key, value) for every item of data
SetAttrs(row, data) ==
    [f \in DOMAIN row |-> IF f \in DOMAIN data THEN data[f] ELSE row[f]]

\* Appointment.objects.create(**data): the field defaults of the model
NewRow(id, data) ==
    [id                  |-> id,
     status              |-> Get(data, "status", "proposed"),
     priority            |-> Get(data, "priority", 5),
     start               |-> data["start"],
     end                 |-> data["end"],
     patient_id          |-> data["patient_id"],
     practitioner_id     |-> data["practitioner_id"],
     patient_status      |-> Get(data, "patient_status", "needs-action"),
     practitioner_status |-> Get(data, "practitioner_status", "needs-action"),
     cancellation_reason |-> Get(data, "cancellation_reason", "")]

\* date.date(): the calendar day of a time in minutes
DayOf(t) == t \div MinutesPerDay

Drop(f, k) == [x \in DOMAIN f \ {k} |-> f[x]]

Put(f, k, v) == [x \in DOMAIN f \cup {k} |-> IF x = k THEN v ELSE f[x]]

-----------------------------------------------------------------------------
(* Models: Appointment predicates *)

is_active(row) == row.status \in ActiveStatuses

\* mutant: can_cancel tests the active statuses of is_active
can_cancel_active(row) == row.status \in ActiveStatuses

can_cancel(row) == row.status \in CancellableStatuses

\* mutant: the check-in window opens a minute late
can_check_in_late(row) ==
    /\ row.status = "booked"
    /\ now > row.start - CheckInWindowMinutes
    /\ now < row.end

can_check_in(row) ==
    /\ row.status = "booked"
    /\ now >= row.start - CheckInWindowMinutes
    /\ now < row.end

-----------------------------------------------------------------------------
(* Repository *)

\* BaseRepository.get_by_id: the cached instance when there is one, else the row
Found(id) == id \in DOMAIN idCache \/ id \in DOMAIN appts

get_by_id(id) == IF id \in DOMAIN idCache THEN idCache[id] ELSE appts[id]

\* the cache after get_by_id(id): a row read from the table is cached
CacheAfterGet(id) ==
    IF id \notin DOMAIN idCache /\ id \in DOMAIN appts
    THEN Put(idCache, id, appts[id])
    ELSE idCache

\* mutant: __lte / __gte in place of __lt / __gt
find_conflicts_inclusive(practitioner_id, start, end, exclude_appointment_id) ==
    {id \in DOMAIN appts :
        /\ appts[id].practitioner_id = practitioner_id
        /\ appts[id].start <= end
        /\ appts[id].end >= start
        /\ appts[id].status \in ActiveStatuses
        /\ (exclude_appointment_id # NoId => id # exclude_appointment_id)}

\* AppointmentRepository.find_conflicts: the ids of the conflicting rows
find_conflicts(practitioner_id, start, end, exclude_appointment_id) ==
    {id \in DOMAIN appts :
        /\ appts[id].practitioner_id = practitioner_id
        /\ appts[id].start < end
        /\ appts[id].end > start
        /\ appts[id].status \in ActiveStatuses
        /\ (exclude_appointment_id # NoId => id # exclude_appointment_id)}

\* find_by_date_range with the practitioner filter only; the result is the
\* set of rows (the order by start is not modelled)
find_by_date_range(start_date, end_date, practitioner_id) ==
    {appts[id] : id \in {i \in DOMAIN appts :
        /\ appts[i].start >= start_date
        /\ appts[i].start <= end_date
        /\ appts[i].practitioner_id = practitioner_id}}

-----------------------------------------------------------------------------
(* Service: validation hooks.  Each returns TRUE when it raises               *)
(* ValidationError.                                                           *)

\* mutant: the table is read with the two statuses swapped
_is_valid_status_transition_swapped(from_status, to_status) ==
    IF from_status = to_status
    THEN TRUE
    ELSE from_status \in Get(valid_transitions, to_status, {})

_is_valid_status_transition(from_status, to_status) ==
    IF from_status = to_status
    THEN TRUE
    ELSE to_status \in Get(valid_transitions, from_status, {})

\* mutant: the grace period excludes its own boundary
validate_create_tight(data) ==
    IF ~Has(data, "patient_id") THEN TRUE
    ELSE IF ~Has(data, "practitioner_id") THEN TRUE
    ELSE IF ~Has(data, "start") THEN TRUE
    ELSE IF ~Has(data, "end") THEN TRUE
    ELSE IF data["start"] >= data["end"] THEN TRUE
    ELSE IF data["start"] <= now - GraceMinutes THEN TRUE
    ELSE IF (data["end"] - data["start"]) * 60 > MaxDurationHours * 3600 THEN TRUE
    ELSE find_conflicts(data["practitioner_id"], data["start"], data["end"], NoId) # {}

validate_create(data) ==
    IF ~Has(data, "patient_id") THEN TRUE
    ELSE IF ~Has(data, "practitioner_id") THEN TRUE
    ELSE IF ~Has(data, "start") THEN TRUE
    ELSE IF ~Has(data, "end") THEN TRUE
    ELSE IF data["start"] >= data["end"] THEN TRUE
    ELSE IF data["start"] < now - GraceMinutes THEN TRUE
    ELSE IF (data["end"] - data["start"]) * 60 > MaxDurationHours * 3600 THEN TRUE
    ELSE find_conflicts(data["practitioner_id"], data["start"], data["end"], NoId) # {}

\* mutant: start is not compared with end
validate_update_untimed(existing, data) ==
    LET start == Get(data, "start", existing.start)
        end == Get(data, "end", existing.end)
        practitioner_id == Get(data, "practitioner_id", existing.practitioner_id)
    IN  IF /\ (Has(data, "start") \/ Has(data, "end") \/ Has(data, "practitioner_id"))
           /\ find_conflicts(practitioner_id, start, end, existing.id) # {}
        THEN TRUE
        ELSE IF Has(data, "status")
             THEN ~_is_valid_status_transition(existing.status, data["status"])
        ELSE FALSE

validate_update(existing, data) ==
    LET start == Get(data, "start", existing.start)
        end == Get(data, "end", existing.end)
        practitioner_id == Get(data, "practitioner_id", existing.practitioner_id)
    IN  IF start >= end THEN TRUE
        ELSE IF /\ (Has(data, "start") \/ Has(data, "end") \/ Has(data, "practitioner_id"))
                /\ find_conflicts(practitioner_id, start, end, existing.id) # {}
             THEN TRUE
        ELSE IF Has(data, "status")
             THEN ~_is_valid_status_transition(existing.status, data["status"])
        ELSE FALSE

\* mutant: the no-show exemption of past appointments is missing
validate_delete_strict(existing) ==
    IF existing.status = "fulfilled" THEN TRUE
    ELSE existing.start < now /\ existing.status \notin {"cancelled"}

validate_delete(existing) ==
    IF existing.status = "fulfilled" THEN TRUE
    ELSE existing.start < now /\ existing.status \notin {"cancelled", "noshow"}

-----------------------------------------------------------------------------
(* BaseService.update / BaseRepository.update as an outcome:                  *)
(* res is "None" (no such entity), "ValidationError" or "ok"; on "ok" the     *)
(* instance read through the cache, with the new attributes, is saved and the *)
(* cache entry deleted.                                                       *)

\* the foreign key of the patient column: TRUE when the row names a
\* patient that has been deleted and the database raises IntegrityError
ParentMissing(row) == row.patient_id \in gone

UpdateRes(id, data) ==
    IF ~Found(id) THEN "None"
    ELSE IF validate_update(get_by_id(id), data) THEN "ValidationError"
    ELSE IF ParentMissing(SetAttrs(get_by_id(id), data)) THEN "IntegrityError"
    ELSE "ok"

\* (the schedule cache is left to the caller: cancel_appointment deletes a key)
ApplyUpdate(id, data, op) ==
    LET res == UpdateRes(id, data)
    IN  /\ ret' = [op |-> op, res |-> res]
        /\ IF res = "ok"
           THEN /\ appts' = Put(appts, id, SetAttrs(get_by_id(id), data))
                /\ idCache' = Drop(idCache, id)
           ELSE /\ appts' = appts
                /\ idCache' = CacheAfterGet(id)
        /\ UNCHANGED <<others, availCache, now, nextId>>

\* a workflow method that raised before calling self.update
Refuse(id, op) ==
    /\ ret' = [op |-> op, res |-> "ValidationError"]
    /\ idCache' = CacheAfterGet(id)
    /\ UNCHANGED <<others, appts, availCache, schedCache, now, nextId>>

-----------------------------------------------------------------------------
(* Service operations *)

\* BaseService.create
Create(data) ==
    /\ nextId <= MaxAppts
    /\ IF validate_create(data)
       THEN /\ ret' = [op |-> "create", res |-> "ValidationError"]
            /\ UNCHANGED <<appts, nextId>>
       ELSE IF ParentMissing(NewRow(nextId, data))
       THEN /\ ret' = [op |-> "create", res |-> "IntegrityError"]
            /\ UNCHANGED <<appts, nextId>>
       ELSE /\ ret' = [op |-> "create", res |-> "ok"]
            /\ appts' = Put(appts, nextId, NewRow(nextId, data))
            /\ nextId' = nextId + 1
    /\ UNCHANGED <<others, idCache, availCache, schedCache, now>>

\* BaseService.update
Update(id, data) == ApplyUpdate(id, data, "update") /\ UNCHANGED schedCache

\* BaseService.delete
Delete(id) ==
    /\ IF ~Found(id)
       THEN /\ ret' = [op |-> "delete", res |-> "False"]
            /\ UNCHANGED <<appts, idCache>>
       ELSE IF validate_delete(get_by_id(id))
       THEN /\ ret' = [op |-> "delete", res |-> "ValidationError"]
            /\ idCache' = CacheAfterGet(id)
            /\ UNCHANGED appts
       ELSE /\ ret' = [op |-> "delete", res |-> "True"]
            /\ appts' = Drop(appts, id)
            /\ idCache' = Drop(idCache, id)
    /\ UNCHANGED <<others, availCache, schedCache, now, nextId>>

\* mutant: the availability re-check before booking is missing
book_appointment_unchecked(id) ==
    IF ~Found(id) THEN Refuse(id, "book")
    ELSE IF get_by_id(id).status \notin {"proposed", "pending"}
         THEN Refuse(id, "book")
    ELSE ApplyUpdate(id, [status |-> "booked",
                          patient_status |-> "accepted",
                          practitioner_status |-> "accepted"], "book") /\ UNCHANGED schedCache

book_appointment(id) ==
    IF ~Found(id) THEN Refuse(id, "book")
    ELSE LET appointment == get_by_id(id)
         IN  IF appointment.status \notin {"proposed", "pending"}
             THEN Refuse(id, "book")
             ELSE IF find_conflicts(appointment.practitioner_id, appointment.start,
                                    appointment.end, appointment.id) # {}
             THEN Refuse(id, "book")
             ELSE ApplyUpdate(id, [status |-> "booked",
                                   patient_status |-> "accepted",
                                   practitioner_status |-> "accepted"], "book") /\ UNCHANGED schedCache

cancel_appointment(id, cancellation_reason) ==
    IF ~Found(id) THEN Refuse(id, "cancel")
    ELSE IF ~can_cancel(get_by_id(id)) THEN Refuse(id, "cancel")
    ELSE ApplyUpdate(id, [status |-> "cancelled",
                          cancellation_reason |-> cancellation_reason], "cancel")
         /\ schedCache' = Drop(schedCache, <<get_by_id(id).practitioner_id,
                                              DayOf(get_by_id(id).start)>>)

check_in_appointment(id) ==
    IF ~Found(id) THEN Refuse(id, "check_in")
    ELSE IF ~can_check_in(get_by_id(id)) THEN Refuse(id, "check_in")
    ELSE ApplyUpdate(id, [status |-> "checked-in",
                          patient_status |-> "accepted"], "check_in") /\ UNCHANGED schedCache

\* mutant: arrived is written whatever the current status is
mark_as_arrived_unchecked(id) ==
    IF ~Found(id) THEN Refuse(id, "arrive")
    ELSE /\ ret' = [op |-> "arrive", res |-> "ok"]
         /\ appts' = Put(appts, id, SetAttrs(get_by_id(id), [status |-> "arrived"]))
         /\ idCache' = Drop(idCache, id)
         /\ UNCHANGED <<others, availCache, schedCache, now, nextId>>

mark_as_arrived(id) ==
    IF ~Found(id) THEN Refuse(id, "arrive")
    ELSE IF get_by_id(id).status \notin {"booked", "checked-in"} THEN Refuse(id, "arrive")
    ELSE ApplyUpdate(id, [status |-> "arrived"], "arrive") /\ UNCHANGED schedCache

mark_as_fulfilled(id) ==
    IF ~Found(id) THEN Refuse(id, "fulfill")
    ELSE IF get_by_id(id).status \notin {"arrived", "checked-in", "booked"}
         THEN Refuse(id, "fulfill")
    ELSE ApplyUpdate(id, [status |-> "fulfilled"], "fulfill") /\ UNCHANGED schedCache

\* mutant: no-show is refused at the very end of the appointment
mark_as_noshow_after(id) ==
    IF ~Found(id) THEN Refuse(id, "noshow")
    ELSE IF get_by_id(id).status \notin {"booked", "checked-in", "arrived"}
         THEN Refuse(id, "noshow")
    ELSE IF get_by_id(id).end >= now THEN Refuse(id, "noshow")
    ELSE ApplyUpdate(id, [status |-> "noshow"], "noshow") /\ UNCHANGED schedCache

mark_as_noshow(id) ==
    IF ~Found(id) THEN Refuse(id, "noshow")
    ELSE IF get_by_id(id).status \notin {"booked", "checked-in", "arrived"}
         THEN Refuse(id, "noshow")
    ELSE IF get_by_id(id).end > now THEN Refuse(id, "noshow")
    ELSE ApplyUpdate(id, [status |-> "noshow"], "noshow") /\ UNCHANGED schedCache

\* AppointmentViewSet.destroy: get_object() reads the table, not the cache
destroy(id) ==
    IF id \notin DOMAIN appts
    THEN /\ ret' = [op |-> "destroy", res |-> "404"]
         /\ UNCHANGED <<others, appts, idCache, availCache, schedCache, now, nextId>>
    ELSE IF validate_delete(appts[id])
    THEN /\ ret' = [op |-> "destroy", res |-> "400"]
         /\ UNCHANGED <<others, appts, idCache, availCache, schedCache, now, nextId>>
    ELSE IF validate_delete(get_by_id(id))
    THEN /\ ret' = [op |-> "destroy", res |-> "400"]
         /\ idCache' = CacheAfterGet(id)
         /\ UNCHANGED <<others, appts, availCache, schedCache, now, nextId>>
    ELSE /\ ret' = [op |-> "destroy", res |-> "204"]
         /\ appts' = Drop(appts, id)
         /\ idCache' = Drop(idCache, id)
         /\ UNCHANGED <<others, availCache, schedCache, now, nextId>>

\* ---- API layer: serializers and AppointmentViewSet ----
\* A request body is a dict; a datetime string stands for its minute.  A
\* serializer yields [valid |-> FALSE] when is_valid raises (answer 400),
\* else [valid |-> TRUE, data |-> validated_data].

\* the actor of the last participant whose reference starts with `kind`,
\* as the loop of to_internal_value leaves it; <<>> when there is none
LastParticipant(participant, kind) ==
    LET at == {i \in 1..Len(participant) :
                  /\ Has(participant[i], "reference")
                  /\ participant[i]["reference"][1] = kind}
    IN  IF at = {} THEN <<>>
        ELSE participant[CHOOSE i \in at : \A j \in at : j <= i]

\* FHIRAppointmentSerializer.to_internal_value (the same for PUT, POST and
\* PATCH: a Serializer subclass that overrides it ignores `partial`).
\* A reference "Patient/<id>" is the pair <<"Patient", id>>.
to_internal_value(data) ==
    IF Get(data, "resourceType", "") # "Appointment" THEN [valid |-> FALSE]
    ELSE IF ~Has(data, "status") THEN [valid |-> FALSE]
    ELSE IF ~Has(data, "participant") THEN [valid |-> FALSE]
    ELSE IF data["participant"] = <<>> THEN [valid |-> FALSE]
    ELSE IF ~Has(data, "start") THEN [valid |-> FALSE]
    ELSE IF ~Has(data, "end") THEN [valid |-> FALSE]
    ELSE
      LET pat == LastParticipant(data["participant"], "Patient")
          pra == LastParticipant(data["participant"], "Practitioner")
      IN  IF pat = <<>> THEN [valid |-> FALSE]
          ELSE IF pra = <<>> THEN [valid |-> FALSE]
          ELSE
            LET appointment_data ==
                  [status              |-> data["status"],
                   start               |-> data["start"],
                   end                 |-> data["end"],
                   patient_id          |-> pat["reference"][2],
                   practitioner_id     |-> pra["reference"][2],
                   patient_status      |-> Get(pat, "status", "needs-action"),
                   practitioner_status |-> Get(pra, "status", "needs-action")]
            IN  [valid |-> TRUE,
                 data  |-> IF Has(data, "priority")
                           THEN ("priority" :> data["priority"]) @@ appointment_data
                           ELSE appointment_data]

\* AppointmentSerializer (ModelSerializer): the model fields without a
\* default are required unless partial; the validated data keep the field
\* names of Meta.fields, so the participants are under `patient` and
\* `practitioner`
AppointmentSerializer(data, partial) ==
    IF ~partial /\ {"start", "end", "patient", "practitioner"} \ DOMAIN data # {}
    THEN [valid |-> FALSE]
    ELSE [valid |-> TRUE, data |-> data]

\* get_serializer(...).is_valid() for the format query parameter
get_serializer(format, data, partial) ==
    IF format = "standard" THEN AppointmentSerializer(data, partial)
    ELSE to_internal_value(data)

\* AppointmentViewSet.create (POST)
create(format, data) ==
    LET serializer == get_serializer(format, data, FALSE)
    IN  /\ nextId <= MaxAppts
        /\ IF ~serializer.valid
           THEN /\ ret' = [op |-> "POST", res |-> "400"]
                /\ UNCHANGED <<appts, nextId>>
           ELSE IF validate_create(serializer.data)
           THEN /\ ret' = [op |-> "POST", res |-> "400"]
                /\ UNCHANGED <<appts, nextId>>
           ELSE /\ ret' = [op |-> "POST", res |-> "201"]
                /\ appts' = Put(appts, nextId, NewRow(nextId, serializer.data))
                /\ nextId' = nextId + 1
        /\ UNCHANGED <<others, idCache, availCache, schedCache, now>>

\* AppointmentViewSet.partial_update (PATCH): get_object reads the table,
\* service.update reads through the by-id cache and validates again
partial_update(format, id, data) ==
    IF id \notin DOMAIN appts
    THEN /\ ret' = [op |-> "PATCH", res |-> "404"]
         /\ UNCHANGED <<others, appts, idCache, availCache, schedCache, now, nextId>>
    ELSE
      LET serializer == get_serializer(format, data, TRUE)
      IN  IF ~serializer.valid
          THEN /\ ret' = [op |-> "PATCH", res |-> "400"]
               /\ UNCHANGED <<others, appts, idCache, availCache, schedCache, now, nextId>>
          ELSE IF validate_update(appts[id], serializer.data)
          THEN /\ ret' = [op |-> "PATCH", res |-> "400"]
               /\ UNCHANGED <<others, appts, idCache, availCache, schedCache, now, nextId>>
          ELSE IF UpdateRes(id, serializer.data) = "ok"
          THEN /\ ret' = [op |-> "PATCH", res |-> "200"]
               /\ appts' = Put(appts, id, SetAttrs(get_by_id(id), serializer.data))
               /\ idCache' = Drop(idCache, id)
               /\ UNCHANGED <<others, availCache, schedCache, now, nextId>>
          ELSE /\ ret' = [op |-> "PATCH", res |-> "400"]
               /\ idCache' = CacheAfterGet(id)
               /\ UNCHANGED <<others, appts, availCache, schedCache, now, nextId>>

\* AppointmentService.check_availability -> repository.check_availability:
\* a cached answer that has not reached its timeout is returned as it is,
\* otherwise find_conflicts is queried and the answer cached for cache_ttl.
\* ret records the arguments next to the answer.
check_availability(practitioner_id, start, end) ==
    LET cache_key == <<practitioner_id, start, end>>
        cached == /\ cache_key \in DOMAIN availCache
                  /\ now < availCache[cache_key].expires
        conflicts == find_conflicts(practitioner_id, start, end, NoId)
        is_available == IF cached THEN availCache[cache_key].value
                        ELSE conflicts = {}
    IN  /\ ret' = [op |-> "check_availability",
                   res |-> IF is_available THEN "True" ELSE "False",
                   practitioner_id |-> practitioner_id,
                   start |-> start, end |-> end]
        /\ availCache' =
              IF cached THEN availCache
              ELSE Put(availCache, cache_key,
                       [value |-> is_available,
                        expires |-> now + CacheTtlSeconds \div 60])
        /\ UNCHANGED <<others, appts, idCache, schedCache, now, nextId>>

\* AppointmentRepository.get_practitioner_schedule for the day `date`:
\* a cached schedule that has not reached its timeout is returned as it is,
\* otherwise the day's range is queried and the answer cached for cache_ttl.
get_practitioner_schedule(practitioner_id, date) ==
    LET cache_key == <<practitioner_id, date>>
        cached == /\ cache_key \in DOMAIN schedCache
                  /\ now < schedCache[cache_key].expires
        start_of_day == date * MinutesPerDay
        end_of_day == start_of_day + MinutesPerDay
        schedule == IF cached THEN schedCache[cache_key].value
                    ELSE find_by_date_range(start_of_day, end_of_day, practitioner_id)
    IN  /\ ret' = [op |-> "get_practitioner_schedule", res |-> schedule,
                   practitioner_id |-> practitioner_id, date |-> date]
        /\ schedCache' =
              IF cached THEN schedCache
              ELSE Put(schedCache, cache_key,
                       [value |-> schedule,
                        expires |-> now + CacheTtlSeconds \div 60])
        /\ UNCHANGED <<others, appts, idCache, availCache, now, nextId>>

\* a call of BaseRepository.get_by_id (AppointmentService.get_by_id passes
\* through): the answer is <<>> for None and <<entity>> otherwise, and a
\* row read from the table is cached
Repository_get_by_id(id) ==
    /\ ret' = [op |-> "get_by_id", id |-> id,
               res |-> IF Found(id) THEN <<get_by_id(id)>> ELSE <<>>]
    /\ idCache' = CacheAfterGet(id)
    /\ UNCHANGED <<others, appts, availCache, schedCache, now, nextId>>

\* PatientViewSet.destroy: patient.delete() on a stored patient; the
\* database deletes the patient's appointments with it (on_delete=CASCADE)
\* and no cache is touched
Patient_destroy(pk) ==
    /\ pk \notin gone
    /\ gone' = gone \cup {pk}
    /\ appts' = [id \in {i \in DOMAIN appts : appts[i].patient_id # pk} |-> appts[id]]
    /\ ret' = [op |-> "patient_destroy", res |-> "204"]
    /\ UNCHANGED <<practitioners, pracCache, reports, call, invoices, settings, reqs,
                   idCache, availCache, schedCache, now, nextId>>

\* the filter of find_upcoming, as the Q object is built: the time window
\* and the statuses, then each id filter that is given (`if patient_id:`)
UpcomingStatuses == {"proposed", "pending", "booked", "waitlist"}

\* mutant: the window has no lower end
upcoming_filter_open(row, patient_id, practitioner_id, days_ahead) ==
    LET end_date == now + days_ahead * MinutesPerDay
    IN  /\ row.start <= end_date
        /\ row.status \in UpcomingStatuses
        /\ patient_id \notin {"None", ""} => row.patient_id = patient_id
        /\ practitioner_id \notin {"None", ""} => row.practitioner_id = practitioner_id

upcoming_filter(row, patient_id, practitioner_id, days_ahead) ==
    LET end_date == now + days_ahead * MinutesPerDay
    IN  /\ row.start >= now
        /\ row.start <= end_date
        /\ row.status \in UpcomingStatuses
        /\ patient_id \notin {"None", ""} => row.patient_id = patient_id
        /\ practitioner_id \notin {"None", ""} => row.practitioner_id = practitioner_id

\* order_by('start'): the rows as a list in ascending start; the database
\* may return rows of equal start in either order
OrderedByStart(rows) ==
    {list \in [1..Cardinality(rows) -> rows] :
        /\ \A i, j \in DOMAIN list : i < j => list[i] # list[j]
        /\ \A i, j \in DOMAIN list : i < j => list[i].start <= list[j].start}

\* AppointmentRepository.find_upcoming (AppointmentService
\* .get_upcoming_appointments passes its arguments through)
find_upcoming(patient_id, practitioner_id, days_ahead) ==
    LET rows == {appts[id] : id \in {i \in DOMAIN appts :
                     upcoming_filter(appts[i], patient_id, practitioner_id, days_ahead)}}
    IN  /\ \E list \in OrderedByStart(rows) :
              ret' = [op |-> "find_upcoming", res |-> list, patient_id |-> patient_id,
                      practitioner_id |-> practitioner_id, days_ahead |-> days_ahead]
        /\ UNCHANGED <<others, apptVars>>

\* ---- Concurrent requests ----
\* Each request runs its service method in its own worker; the workers share
\* the database and the cache.  A request is taken in two steps, between
\* which other requests may run: its reads and checks, and its write.
\* reqs[r] holds what request r has decided to write.

\* BaseService.create up to the end of validate_create (the view has run
\* the same validation just before): the conflict query sees the rows that
\* are committed
begin_create(r, data) ==
    /\ r \notin DOMAIN reqs
    /\ IF validate_create(data)
       THEN /\ ret' = [op |-> "create", res |-> "ValidationError"]
            /\ UNCHANGED reqs
       ELSE /\ reqs' = Put(reqs, r, [op |-> "create", data |-> data])
            /\ UNCHANGED ret
    /\ UNCHANGED <<practitioners, pracCache, reports, call, invoices, settings, gone,
                   apptVars>>

\* BaseService.create from repository.create to the commit of the atomic
\* block: Appointment.objects.create(**data)
finish_create(r) ==
    /\ r \in DOMAIN reqs
    /\ reqs[r].op = "create"
    /\ nextId <= MaxAppts
    /\ IF ParentMissing(NewRow(nextId, reqs[r].data))
       THEN /\ ret' = [op |-> "create", res |-> "IntegrityError"]
            /\ UNCHANGED <<appts, nextId>>
       ELSE /\ ret' = [op |-> "create", res |-> "ok"]
            /\ appts' = Put(appts, nextId, NewRow(nextId, reqs[r].data))
            /\ nextId' = nextId + 1
    /\ reqs' = Drop(reqs, r)
    /\ UNCHANGED <<practitioners, pracCache, reports, call, invoices, settings, gone,
                   idCache, availCache, schedCache, now>>

\* what cancel_appointment and mark_as_fulfilled check on the appointment
\* they read
StatusActionAllowed(op, appointment) ==
    IF op = "cancel" THEN can_cancel(appointment)
    ELSE appointment.status \in {"arrived", "checked-in", "booked"}

\* and what they pass to self.update
StatusActionData(op) ==
    IF op = "cancel" THEN [status |-> "cancelled", cancellation_reason |-> ""]
    ELSE [status |-> "fulfilled"]

\* cancel_appointment / mark_as_fulfilled up to the end of validate_update in
\* BaseService.update: the appointment is read through get_by_id, checked,
\* (for a cancellation, the schedule key deleted,) and the update validated
begin_status_action(r, op, id) ==
    /\ r \notin DOMAIN reqs
    /\ idCache' = CacheAfterGet(id)
    /\ IF ~Found(id)
       THEN /\ ret' = [op |-> op, res |-> "ValidationError"]
            /\ UNCHANGED <<reqs, schedCache>>
       ELSE IF ~StatusActionAllowed(op, get_by_id(id))
       THEN /\ ret' = [op |-> op, res |-> "ValidationError"]
            /\ UNCHANGED <<reqs, schedCache>>
       ELSE /\ schedCache' =
                  IF op = "cancel"
                  THEN Drop(schedCache, <<get_by_id(id).practitioner_id,
                                         DayOf(get_by_id(id).start)>>)
                  ELSE schedCache
            /\ IF validate_update(get_by_id(id), StatusActionData(op))
               THEN /\ ret' = [op |-> op, res |-> "ValidationError"]
                    /\ UNCHANGED reqs
               ELSE /\ reqs' = Put(reqs, r, [op |-> op, id |-> id,
                                             data |-> StatusActionData(op)])
                    /\ UNCHANGED ret
    /\ UNCHANGED <<practitioners, pracCache, reports, call, invoices, settings, gone,
                   appts, availCache, now, nextId>>

\* BaseService.update from repository.update to the commit: the instance
\* is read through get_by_id again, given the new attributes and saved, and
\* its cache key deleted
finish_status_action(r) ==
    /\ r \in DOMAIN reqs
    /\ reqs[r].op # "create"
    /\ LET id == reqs[r].id
           op == reqs[r].op
       IN  IF ~Found(id)
           THEN /\ ret' = [op |-> op, res |-> "None"]
                /\ UNCHANGED <<appts, idCache>>
           ELSE IF ParentMissing(SetAttrs(get_by_id(id), reqs[r].data))
           THEN /\ ret' = [op |-> op, res |-> "IntegrityError"]
                /\ idCache' = CacheAfterGet(id)
                /\ UNCHANGED appts
           ELSE /\ ret' = [op |-> op, res |-> "ok"]
                /\ appts' = Put(appts, id, SetAttrs(get_by_id(id), reqs[r].data))
                /\ idCache' = Drop(idCache, id)
    /\ reqs' = Drop(reqs, r)
    /\ UNCHANGED <<practitioners, pracCache, reports, call, invoices, settings, gone,
                   availCache, schedCache, now, nextId>>

\* ---- Practitioners: PractitionerService over BaseService/BaseRepository ----
\* A row keeps id, email, npi and specialization; npi is "None" for NULL.

\* `if data.get(k)`: the key is there and its value is not empty
Truthy(data, k) == Has(data, k) /\ data[k] \notin {"", "None"}

\* BaseRepository.find_one on the Practitioner table (ordering -created_at:
\* the latest row first); the id found, or NoId for None
find_one(field, value) ==
    LET found == {id \in DOMAIN practitioners : practitioners[id][field] = value}
    IN  IF found = {} THEN NoId
        ELSE CHOOSE id \in found : \A other \in found : other <= id

find_by_npi(npi) == find_one("npi", npi)

find_by_email(email) == find_one("email", email)

\* Practitioner.objects.create(**data): npi is nullable without a default
PractitionerRow(id, data) ==
    [id             |-> id,
     email          |-> data["email"],
     npi            |-> Get(data, "npi", "None"),
     specialization |-> data["specialization"]]

\* the UNIQUE constraint of the npi column (NULLs never clash): TRUE when
\* the table `rows` breaks it and the database raises IntegrityError
NpiUniqueViolated(rows) ==
    \E a \in DOMAIN rows, b \in DOMAIN rows :
        a # b /\ rows[a].npi # "None" /\ rows[a].npi = rows[b].npi

\* PractitionerService.validate_create: TRUE when it raises ValidationError
Practitioner_validate_create(data) ==
    IF ~Truthy(data, "given_name") THEN TRUE
    ELSE IF ~Truthy(data, "family_name") THEN TRUE
    ELSE IF ~Truthy(data, "email") THEN TRUE
    ELSE IF ~Truthy(data, "phone") THEN TRUE
    ELSE IF ~Truthy(data, "specialization") THEN TRUE
    ELSE IF ~Truthy(data, "qualification") THEN TRUE
    ELSE IF Truthy(data, "npi") /\ find_by_npi(data["npi"]) # NoId THEN TRUE
    ELSE find_by_email(data["email"]) # NoId

\* mutant: the email of an update is not checked
Practitioner_validate_update_npi_only(existing, data) ==
    /\ Has(data, "npi")
    /\ data["npi"] # existing.npi
    /\ Truthy(data, "npi")
    /\ find_by_npi(data["npi"]) \notin {NoId, existing.id}

\* PractitionerService.validate_update: TRUE when it raises ValidationError
Practitioner_validate_update(existing, data) ==
    IF /\ Has(data, "npi")
       /\ data["npi"] # existing.npi
       /\ Truthy(data, "npi")
       /\ find_by_npi(data["npi"]) \notin {NoId, existing.id}
    THEN TRUE
    ELSE /\ Has(data, "email")
         /\ data["email"] # existing.email
         /\ find_by_email(data["email"]) \notin {NoId, existing.id}

\* BaseService.create for practitioners
Practitioner_create(data) ==
    LET id == Cardinality(DOMAIN practitioners) + 1
    IN  /\ id <= MaxPractitioners
        /\ IF Practitioner_validate_create(data)
           THEN /\ ret' = [op |-> "practitioner_create", res |-> "ValidationError"]
                /\ UNCHANGED practitioners
           ELSE IF NpiUniqueViolated(Put(practitioners, id, PractitionerRow(id, data)))
           THEN /\ ret' = [op |-> "practitioner_create", res |-> "IntegrityError"]
                /\ UNCHANGED practitioners
           ELSE /\ ret' = [op |-> "practitioner_create", res |-> "ok"]
                /\ practitioners' = Put(practitioners, id, PractitionerRow(id, data))
        /\ UNCHANGED <<apptVars, later, pracCache, reports, call, invoices>>

\* BaseService.update for practitioners: the instance is read through the
\* by-id cache, validated, saved, and its cache entry deleted
Practitioner_update(id, data) ==
    LET cached == id \in DOMAIN pracCache
        found == cached \/ id \in DOMAIN practitioners
        existing == IF cached THEN pracCache[id] ELSE practitioners[id]
        afterGet == IF found /\ ~cached THEN Put(pracCache, id, practitioners[id])
                    ELSE pracCache
        saved == Put(practitioners, id, SetAttrs(existing, data))
    IN  /\ IF ~found
           THEN /\ ret' = [op |-> "practitioner_update", res |-> "None"]
                /\ UNCHANGED <<practitioners, pracCache>>
           ELSE IF Practitioner_validate_update(existing, data)
           THEN /\ ret' = [op |-> "practitioner_update", res |-> "ValidationError"]
                /\ pracCache' = afterGet
                /\ UNCHANGED practitioners
           ELSE IF NpiUniqueViolated(saved)
           THEN /\ ret' = [op |-> "practitioner_update", res |-> "IntegrityError"]
                /\ pracCache' = afterGet
                /\ UNCHANGED practitioners
           ELSE /\ ret' = [op |-> "practitioner_update", res |-> "ok"]
                /\ practitioners' = saved
                /\ pracCache' = Drop(pracCache, id)
        /\ UNCHANGED <<apptVars, later, reports, call, invoices>>

\* ---- Reports: ReportService.generate_report and ReportViewSet.download ----
\* A row keeps id, report_type, format, status, file (NoFile for no file),
\* record_count, completed_at (<<>> for NULL, <<t>> for the time t) and error_message.  Every
\* save of generate_report commits on its own, so the call is modelled
\* step by step, `call` holding its position.

NoFile == <<>>

ReportTypes ==
    {"patients", "practitioners", "appointments", "prescriptions", "invoices",
     "clinical_records"}

\* ReportFactory._strategies
Strategies == {"pdf", "csv", "txt", "json"}

\* str.lower() on the format names used
Lower(format_type) ==
    CASE format_type = "CSV" -> "csv"
      [] format_type = "PDF" -> "pdf"
      [] OTHER -> format_type

\* Report.objects.create(...): the field defaults of the model
ReportRow(id, report_type, format, status, file) ==
    [id            |-> id,
     report_type   |-> report_type,
     format        |-> format,
     status        |-> status,
     file          |-> file,
     record_count  |-> 0,
     completed_at  |-> <<>>,
     error_message |-> ""]

mark_processing(report) == [report EXCEPT !.status = "processing"]

mark_completed(report, file_path, record_count) ==
    [report EXCEPT !.status = "completed", !.file = file_path,
                   !.record_count = record_count, !.completed_at = <<now>>]

\* mutant: a failure is not recorded
mark_failed_silent(report, error_message) == report

mark_failed(report, error_message) ==
    [report EXCEPT !.status = "failed", !.error_message = error_message]

\* generate_report, up to Report.objects.create(status=pending)
generate_report_create(report_type, format_type) ==
    LET id == Cardinality(DOMAIN reports) + 1
    IN  /\ call.pc = "idle"
        /\ id <= MaxReports
        /\ reports' = Put(reports, id,
                          ReportRow(id, report_type, format_type, "pending", NoFile))
        /\ call' = [pc |-> "created", id |-> id]
        /\ UNCHANGED <<apptVars, later, practitioners, pracCache, invoices, ret>>

\* generate_report: report.mark_processing()
generate_report_processing ==
    /\ call.pc = "created"
    /\ reports' = [reports EXCEPT ![call.id] = mark_processing(@)]
    /\ call' = [call EXCEPT !.pc = "processing"]
    /\ UNCHANGED <<apptVars, later, practitioners, pracCache, invoices, ret>>

\* generate_report, from get_data to the return or the re-raise: the data
\* provider finds `count` records; `generated` is whether strategy.generate
\* and the file save go through (rendering and storage can raise)
generate_report_finish(count, generated) ==
    LET report == reports[call.id]
        error == IF report.report_type \notin ReportTypes
                 THEN "Unsupported report type"
                 ELSE IF Lower(report.format) \notin Strategies
                 THEN "Unsupported format"
                 ELSE IF ~generated THEN "generation error"
                 ELSE ""
    IN  /\ call.pc = "processing"
        /\ IF error # ""
           THEN /\ reports' = [reports EXCEPT ![call.id] = mark_failed(@, error)]
                /\ ret' = [op |-> "generate_report", res |-> "raised",
                           id |-> call.id, count |-> count, error |-> error]
           ELSE /\ reports' = [reports EXCEPT ![call.id] =
                                  mark_completed(@, <<report.report_type,
                                                      Lower(report.format)>>, count)]
                /\ ret' = [op |-> "generate_report", res |-> "ok",
                           id |-> call.id, count |-> count, error |-> ""]
        /\ call' = [pc |-> "idle"]
        /\ UNCHANGED <<apptVars, later, practitioners, pracCache, invoices>>

\* a Report written directly through the ORM (admin, fixtures): any status
\* and file the model's fields allow
Report_objects_create(format, status, file) ==
    LET id == Cardinality(DOMAIN reports) + 1
    IN  /\ call.pc = "idle"
        /\ id <= MaxReports
        /\ reports' = Put(reports, id, ReportRow(id, "patients", format, status, file))
        /\ ret' = [op |-> "Report.objects.create", res |-> "ok"]
        /\ UNCHANGED <<apptVars, later, practitioners, pracCache, call, invoices>>

\* mutant: the status of the report is not looked at
download_any_status(id, on_disk) ==
    LET answer ==
          IF id \notin DOMAIN reports
          THEN [res |-> "404", content |-> FALSE, status |-> "missing", file |-> NoFile]
          ELSE IF reports[id].file = NoFile
               THEN [res |-> "404", content |-> FALSE,
                     status |-> reports[id].status, file |-> reports[id].file]
          ELSE [res |-> "200", content |-> TRUE,
                status |-> reports[id].status, file |-> reports[id].file]
    IN  /\ ret' = [op |-> "download", id |-> id] @@ answer
        /\ UNCHANGED <<apptVars, others>>

\* ReportViewSet.download; on_disk is whether report.file.open finds the
\* file.  ret records the answer, whether file content is returned, and the
\* status and file of the report that get_object read.
download(id, on_disk) ==
    LET report == reports[id]
        answer ==
          IF id \notin DOMAIN reports THEN [res |-> "404", content |-> FALSE]
          ELSE IF report.status # "completed" THEN [res |-> "400", content |-> FALSE]
          ELSE IF report.file = NoFile THEN [res |-> "404", content |-> FALSE]
          ELSE IF Lower(report.format) \notin Strategies
               THEN [res |-> "500", content |-> FALSE]
          ELSE IF ~on_disk THEN [res |-> "404", content |-> FALSE]
          ELSE [res |-> "200", content |-> TRUE]
    IN  /\ ret' = [op |-> "download", id |-> id,
                   status |-> IF id \in DOMAIN reports THEN report.status ELSE "missing",
                   file |-> IF id \in DOMAIN reports THEN report.file ELSE NoFile]
                  @@ answer
        /\ UNCHANGED <<apptVars, others>>

\* ---- Billing: Invoice.save ----
\* A DecimalField(max_digits=10, decimal_places=2) value is a record
\* [u, c] standing for u + c/100 with c in 0..99, so -0.50 is [u |-> -1,
\* c |-> 50].  An invoice row keeps total_gross, amount_paid, balance_due.

Dec(u, c) == [u |-> u, c |-> c]

\* Decimal.__sub__ on two-place values
DecSub(a, b) ==
    IF a.c >= b.c THEN Dec(a.u - b.u, a.c - b.c)
    ELSE Dec(a.u - b.u - 1, a.c - b.c + 100)

\* Decimal.__ge__
DecGe(a, b) == a.u > b.u \/ (a.u = b.u /\ a.c >= b.c)

\* what a column of max_digits=10, decimal_places=2 can hold:
\* -99999999.99 .. 99999999.99
FitsColumn(d) ==
    /\ d.u <= MaxWholeUnits
    /\ d.u >= -MaxWholeUnits \/ (d.u = -MaxWholeUnits - 1 /\ d.c >= 1)

\* mutant: the balance is left as it was
calculate_balance_stale(invoice) == invoice

calculate_balance(invoice) ==
    [invoice EXCEPT !.balance_due = DecSub(invoice.total_gross, invoice.amount_paid)]

is_paid(invoice) == DecGe(invoice.amount_paid, invoice.total_gross)

\* Invoice.save of the in-memory invoice under primary key id: the balance
\* is recomputed and the row written; a value the column cannot hold makes
\* the database refuse the write
save(id, invoice, op) ==
    LET computed == calculate_balance(invoice)
    IN  /\ IF FitsColumn(computed.balance_due)
           THEN /\ invoices' = Put(invoices, id, computed)
                /\ ret' = [op |-> op, res |-> "ok", id |-> id,
                           before |-> invoice.balance_due]
           ELSE /\ invoices' = invoices
                /\ ret' = [op |-> op, res |-> "DataError", id |-> id,
                           before |-> invoice.balance_due]
        /\ UNCHANGED <<apptVars, later, practitioners, pracCache, reports, call>>

\* Invoice.objects.create(...) and InvoiceSerializer.create: a new instance
\* with the given field values (balance_due is read-only in the serializer
\* and then holds the field default 0.00) is saved
Invoice_create(total_gross, amount_paid, balance_due) ==
    LET id == Cardinality(DOMAIN invoices) + 1
    IN  /\ id <= MaxInvoices
        /\ save(id, [total_gross |-> total_gross, amount_paid |-> amount_paid,
                     balance_due |-> balance_due], "invoice_create")

\* InvoiceViewSet.update: the serializer sets the writable fields on the
\* stored instance and saves it
Invoice_update(id, total_gross, amount_paid) ==
    /\ id \in DOMAIN invoices
    /\ save(id, [invoices[id] EXCEPT !.total_gross = total_gross,
                                     !.amount_paid = amount_paid],
            "invoice_update")

\* ---- Common: ClinicSettings ----
\* A row keeps pk, clinic_name and include_logo_in_reports.  An instance in
\* memory has pk NoId until it is saved or loaded.

\* the field defaults of ClinicSettings
DefaultSettings(pk) ==
    [pk |-> pk, clinic_name |-> "Healthcare Clinic", include_logo_in_reports |-> TRUE]

\* the AutoField value the database gives a row inserted without a pk
AutoPk(table) ==
    IF DOMAIN table = {} THEN 1
    ELSE (CHOOSE m \in DOMAIN table : \A k \in DOMAIN table : k <= m) + 1

\* models.Model.save: UPDATE the row of the instance's pk, INSERT when no
\* row was updated or force_insert is given; an INSERT of a pk that is
\* stored breaks the primary key
Model_save(table, instance, force_insert) ==
    IF instance.pk = NoId
    THEN [ok |-> TRUE,
          table |-> Put(table, AutoPk(table), [instance EXCEPT !.pk = AutoPk(table)])]
    ELSE IF force_insert /\ instance.pk \in DOMAIN table
    THEN [ok |-> FALSE, table |-> table]
    ELSE [ok |-> TRUE, table |-> Put(table, instance.pk, instance)]

\* mutant: the primary key of the instance is left as it is
ClinicSettings_save_keep_pk(table, instance, force_insert) ==
    Model_save(table, instance, force_insert)

\* ClinicSettings.save: self.pk = 1; super().save(...)
ClinicSettings_save(table, instance, force_insert) ==
    Model_save(table, [instance EXCEPT !.pk = 1], force_insert)

\* a call of instance.save(force_insert=...) on an instance built or read
\* by the caller
Settings_save(instance, force_insert) ==
    LET saved == ClinicSettings_save(settings, instance, force_insert)
    IN  /\ settings' = saved.table
        /\ ret' = [op |-> "settings_save",
                   res |-> IF saved.ok THEN "ok" ELSE "IntegrityError",
                   instance |-> instance, force_insert |-> force_insert]
        /\ UNCHANGED <<apptVars, practitioners, pracCache, reports, call, invoices, reqs, gone>>

\* ClinicSettings.load: objects.get_or_create(pk=1); the create is
\* cls(pk=1).save(force_insert=True)
ClinicSettings_load ==
    IF 1 \in DOMAIN settings
    THEN [obj |-> settings[1], table |-> settings]
    ELSE LET saved == ClinicSettings_save(settings, DefaultSettings(1), TRUE)
         IN  [obj |-> saved.table[1], table |-> saved.table]

Settings_load ==
    /\ settings' = ClinicSettings_load.table
    /\ ret' = [op |-> "settings_load", res |-> ClinicSettings_load.obj]
    /\ UNCHANGED <<apptVars, practitioners, pracCache, reports, call, invoices, reqs, gone>>

\* ClinicSettingsViewSet.update / partial_update: get_object() is load(), the
\* serializer sets the fields sent and saves the instance
Settings_update(data) ==
    LET loaded == ClinicSettings_load
        saved == ClinicSettings_save(loaded.table, SetAttrs(loaded.obj, data), FALSE)
    IN  /\ settings' = saved.table
        /\ ret' = [op |-> "settings_update", res |-> "200", data |-> data]
        /\ UNCHANGED <<apptVars, practitioners, pracCache, reports, call, invoices, reqs, gone>>

\* a by-id cache entry reaches its TTL or is evicted
CacheExpire(id) ==
    /\ id \in DOMAIN idCache
    /\ idCache' = Drop(idCache, id)
    /\ UNCHANGED <<others, appts, availCache, schedCache, now, nextId, ret>>

\* timezone.now() moves forward
Tick(t) ==
    /\ t > now
    /\ now' = t
    /\ UNCHANGED <<others, appts, idCache, availCache, schedCache, nextId, ret>>

-----------------------------------------------------------------------------
(* Initial state: an empty table and empty caches *)

Ids == 1..MaxAppts

Init ==
    /\ appts = <<>>
    /\ idCache = <<>>
    /\ availCache = <<>>
    /\ schedCache = <<>>
    /\ practitioners = <<>>
    /\ pracCache = <<>>
    /\ reports = <<>>
    /\ call = [pc |-> "idle"]
    /\ invoices = <<>>
    /\ settings = <<>>
    /\ reqs = <<>>
    /\ gone = {}
    /\ now = 60
    /\ nextId = 1
    /\ ret = [op |-> "init", res |-> "ok"]

-----------------------------------------------------------------------------
(* Spec: every service operation, one practitioner, one slot [60, 120),      *)
(* the clock at the slot's start and at its end.                             *)

SlotTimes == {60, 120}
NowPoints == {60, 120}
Reasons == {"", "sick"}

CreateInputs ==
    {[patient_id |-> "pt1", practitioner_id |-> "dr1", start |-> s, end |-> e] :
        s \in SlotTimes, e \in SlotTimes}
    \cup
    {[patient_id |-> "pt1", practitioner_id |-> "dr1", start |-> s, end |-> e,
      status |-> st] :
        s \in SlotTimes, e \in SlotTimes, st \in {"booked", "waitlist"}}

UpdateInputs ==
    {[status |-> st] : st \in Statuses}
    \cup {[start |-> t] : t \in SlotTimes}
    \cup {[end |-> t] : t \in SlotTimes}
    \cup {[status |-> st, end |-> t] : st \in {"booked", "fulfilled"}, t \in SlotTimes}

Next ==
    \/ \E data \in CreateInputs : Create(data)
    \/ \E id \in Ids, data \in UpdateInputs : Update(id, data)
    \/ \E id \in Ids : Delete(id)
    \/ \E id \in Ids : book_appointment(id)
    \/ \E id \in Ids, r \in Reasons : cancel_appointment(id, r)
    \/ \E id \in Ids : check_in_appointment(id)
    \/ \E id \in Ids : mark_as_arrived(id)
    \/ \E id \in Ids : mark_as_fulfilled(id)
    \/ \E id \in Ids : mark_as_noshow(id)
    \/ \E id \in Ids : destroy(id)
    \/ \E id \in Ids : CacheExpire(id)
    \/ \E t \in NowPoints : Tick(t)

Spec == Init /\ [][Next]_vars

-----------------------------------------------------------------------------
(* SpecSchedule: the scheduling operations over two practitioners and the    *)
(* slots between 60, 120 and 180, which touch, nest and overlap.             *)

Practitioners == {"dr1", "dr2"}
ScheduleTimes == {60, 120, 180}

ScheduleCreateInputs ==
    {[patient_id |-> "pt1", practitioner_id |-> pr, start |-> s, end |-> e] :
        pr \in Practitioners, s \in ScheduleTimes, e \in ScheduleTimes}
    \cup
    {[patient_id |-> "pt1", practitioner_id |-> pr, start |-> s, end |-> e,
      status |-> "waitlist"] :
        pr \in Practitioners, s \in ScheduleTimes, e \in ScheduleTimes}

ScheduleUpdateInputs ==
    {[status |-> st] : st \in {"pending", "waitlist"}}
    \cup {[start |-> t] : t \in ScheduleTimes}
    \cup {[end |-> t] : t \in ScheduleTimes}
    \cup {[practitioner_id |-> pr] : pr \in Practitioners}

NextSchedule ==
    \/ \E data \in ScheduleCreateInputs : Create(data)
    \/ \E id \in Ids, data \in ScheduleUpdateInputs : Update(id, data)
    \/ \E id \in Ids : book_appointment(id)
    \/ \E id \in Ids : cancel_appointment(id, "sick")
    \/ \E id \in Ids : Delete(id)

SpecSchedule == Init /\ [][NextSchedule]_vars

-----------------------------------------------------------------------------
(* SpecAvail: availability checks for one practitioner between creations,    *)
(* status updates, bookings and cancellations, the clock moving inside and   *)
(* past the 15 minutes an availability answer stays cached.                  *)

AvailTimes == {60, 120, 180}
AvailNowPoints == {60, 70, 80}

AvailCreateInputs ==
    {[patient_id |-> "pt1", practitioner_id |-> "dr1", start |-> s, end |-> e] :
        s \in AvailTimes, e \in AvailTimes}

AvailSlots == {<<60, 120>>, <<120, 180>>}

AvailUpdateInputs == {[status |-> "pending"], [end |-> 180]}

NextAvail ==
    \/ \E data \in AvailCreateInputs : Create(data)
    \/ \E id \in Ids, data \in AvailUpdateInputs : Update(id, data)
    \/ \E id \in Ids : book_appointment(id)
    \/ \E id \in Ids : cancel_appointment(id, "sick")
    \/ \E slot \in AvailSlots : check_availability("dr1", slot[1], slot[2])
    \/ \E t \in AvailNowPoints : Tick(t)

SpecAvail == Init /\ [][NextAvail]_vars

-----------------------------------------------------------------------------
(* SpecTiming: creation requests around the limits of validate_create: a     *)
(* start 5 and 6 minutes before the clock, a duration of 24 hours and of     *)
(* 24 hours and a minute, reversed and empty ranges, and requests that lack  *)
(* a required field.                                                         *)

TimingStarts == {54, 55, 60, 120}
TimingEnds == {60, 120, 1495, 1496}
TimingNowPoints == {60, 61}
RequiredFields == {"patient_id", "practitioner_id", "start", "end"}

TimingComplete ==
    {[patient_id |-> "pt1", practitioner_id |-> "dr1", start |-> s, end |-> e] :
        s \in TimingStarts, e \in TimingEnds}

TimingCreateInputs ==
    TimingComplete
    \cup {[k \in RequiredFields \ {missing} |->
              [patient_id |-> "pt1", practitioner_id |-> "dr1",
               start |-> 60, end |-> 120][k]] : missing \in RequiredFields}

NextTiming ==
    \/ \E data \in TimingCreateInputs : Create(data)
    \/ \E id \in Ids : cancel_appointment(id, "")
    \/ \E id \in Ids : Delete(id)
    \/ \E t \in TimingNowPoints : Tick(t)

SpecTiming == Init /\ [][NextTiming]_vars

-----------------------------------------------------------------------------
(* SpecVisit: the day of one appointment [100, 130): the clock a minute      *)
(* before the check-in window, at its opening, a minute before the end and   *)
(* at the end.                                                               *)

VisitNowPoints == {60, 69, 70, 129, 130}

VisitCreateInputs ==
    {[patient_id |-> "pt1", practitioner_id |-> "dr1", start |-> 100, end |-> 130],
     [patient_id |-> "pt1", practitioner_id |-> "dr1", start |-> 100, end |-> 130,
      status |-> "booked"]}

NextVisit ==
    \/ \E data \in VisitCreateInputs : Create(data)
    \/ \E id \in Ids : book_appointment(id)
    \/ \E id \in Ids : cancel_appointment(id, "")
    \/ \E id \in Ids : check_in_appointment(id)
    \/ \E id \in Ids : mark_as_arrived(id)
    \/ \E id \in Ids : mark_as_fulfilled(id)
    \/ \E id \in Ids : mark_as_noshow(id)
    \/ \E t \in VisitNowPoints : Tick(t)

SpecVisit == Init /\ [][NextVisit]_vars

-----------------------------------------------------------------------------
(* SpecDay: one practitioner's schedule of day 0 read between creations,     *)
(* updates, cancellations and deletions, the clock inside and past the 15    *)
(* minutes a schedule stays cached.                                          *)

DayNowPoints == {60, 70, 80}

DayCreateInputs ==
    {[patient_id |-> "pt1", practitioner_id |-> "dr1", start |-> s, end |-> s + 60] :
        s \in {60, 120}}

DayUpdateInputs == {[status |-> "booked"], [start |-> 90]}

NextDay ==
    \/ \E data \in DayCreateInputs : Create(data)
    \/ \E id \in Ids, data \in DayUpdateInputs : Update(id, data)
    \/ \E id \in Ids : cancel_appointment(id, "")
    \/ \E id \in Ids : Delete(id)
    \/ get_practitioner_schedule("dr1", 0)
    \/ \E t \in DayNowPoints : Tick(t)

SpecDay == Init /\ [][NextDay]_vars

-----------------------------------------------------------------------------
(* SpecApi: POST and PATCH requests in the FHIR and the standard format.     *)

Formats == {"fhir", "standard"}

FhirParticipants ==
    << [reference |-> <<"Patient", "pt1">>, status |-> "accepted"],
       [reference |-> <<"Practitioner", "dr1">>] >>

\* well-formed creation requests of each format, and two malformed ones
FhirCreateBodies ==
    {[resourceType |-> "Appointment", status |-> st, start |-> s, end |-> s + 60,
      participant |-> FhirParticipants] :
        st \in {"proposed", "booked"}, s \in {60, 120}}
    \cup {[status |-> "proposed", start |-> 60, end |-> 120,
           participant |-> FhirParticipants]}

StandardCreateBodies ==
    {[patient |-> "pt1", practitioner |-> "dr1", start |-> s, end |-> s + 60] :
        s \in {60, 120}}
    \cup {[practitioner |-> "dr1", start |-> 60, end |-> 120]}

CreateBodies(format) ==
    IF format = "standard" THEN StandardCreateBodies ELSE FhirCreateBodies

Priorities == {1, 10}

\* PATCH requests that supply the priority alone (a FHIR resource names its
\* resourceType), and ones that supply more
PriorityBodies(format) ==
    IF format = "standard"
    THEN {[priority |-> pr] : pr \in Priorities}
    ELSE {[resourceType |-> "Appointment", priority |-> pr] : pr \in Priorities}

PatchBodies(format) ==
    PriorityBodies(format)
    \cup IF format = "standard"
         THEN {[status |-> "pending"]}
         ELSE {[resourceType |-> "Appointment", status |-> "pending", priority |-> 10,
                start |-> 60, end |-> 120, participant |-> FhirParticipants]}

NextApi ==
    \/ \E format \in Formats : \E data \in CreateBodies(format) : create(format, data)
    \/ \E format \in Formats, id \in Ids :
          \E data \in PatchBodies(format) : partial_update(format, id, data)
    \/ \E id \in Ids : cancel_appointment(id, "")

SpecApi == Init /\ [][NextApi]_vars

-----------------------------------------------------------------------------
(* SpecPractitioner: creations and updates of practitioners with two emails  *)
(* and two NPIs, an empty NPI and none.                                      *)

Emails == {"a@clinic", "b@clinic"}
Npis == {"", "111", "222"}
PractitionerIds == 1..MaxPractitioners

PractitionerBase(email) ==
    [given_name |-> "G", family_name |-> "F", email |-> email, phone |-> "555",
     specialization |-> "Cardiology", qualification |-> "MD"]

PractitionerCreateInputs ==
    {PractitionerBase(e) : e \in Emails}
    \cup {("npi" :> n) @@ PractitionerBase(e) : e \in Emails, n \in Npis}
    \cup {[k \in DOMAIN PractitionerBase("a@clinic") \ {"phone"} |->
              PractitionerBase("a@clinic")[k]]}

PractitionerUpdateInputs ==
    {[email |-> e] : e \in Emails}
    \cup {[npi |-> n] : n \in Npis}
    \cup {[email |-> e, specialization |-> "Neurology"] : e \in Emails}
    \cup {[npi |-> n, specialization |-> "Neurology"] : n \in Npis}

NextPractitioner ==
    \/ \E data \in PractitionerCreateInputs : Practitioner_create(data)
    \/ \E id \in PractitionerIds, data \in PractitionerUpdateInputs :
          Practitioner_update(id, data)

SpecPractitioner == Init /\ [][NextPractitioner]_vars

-----------------------------------------------------------------------------
(* SpecReport: generate_report calls with supported and unsupported types    *)
(* and formats, reports written through the ORM, and downloads.              *)

ReportTypeInputs == {"patients", "appointments", "billing"}
FormatInputs == {"csv", "CSV", "xml"}
RecordCounts == {0, 2}
ReportIds == 1..MaxReports
ReportStatuses == {"pending", "processing", "completed", "failed"}

NextReport ==
    \/ \E report_type \in ReportTypeInputs, format_type \in FormatInputs :
          generate_report_create(report_type, format_type)
    \/ generate_report_processing
    \/ \E count \in RecordCounts, generated \in BOOLEAN :
          generate_report_finish(count, generated)
    \/ \E id \in ReportIds, on_disk \in BOOLEAN : download(id, on_disk)

SpecReport == Init /\ [][NextReport]_vars

NextDownload ==
    \/ \E report_type \in ReportTypeInputs, format_type \in FormatInputs :
          generate_report_create(report_type, format_type)
    \/ generate_report_processing
    \/ \E count \in RecordCounts, generated \in BOOLEAN :
          generate_report_finish(count, generated)
    \/ \E format \in {"csv", "xml"}, status \in ReportStatuses,
          file \in {NoFile, <<"patients", "csv">>} :
          Report_objects_create(format, status, file)
    \/ \E id \in ReportIds, on_disk \in BOOLEAN : download(id, on_disk)

SpecDownload == Init /\ [][NextDownload]_vars

(* SpecInvoice: invoices created and updated with amounts that are           *)
(* fractional, negative, paid, over-paid and at the edge of the column.      *)

Amounts ==
    {Dec(20, 50), Dec(50, 25), Dec(MaxWholeUnits, 99), Dec(-MaxWholeUnits - 1, 1)}
InvoiceIds == 1..MaxInvoices

NextInvoice ==
    \/ \E total_gross \in Amounts, amount_paid \in Amounts,
          balance_due \in {Dec(0, 0), Dec(50, 25)} :
          Invoice_create(total_gross, amount_paid, balance_due)
    \/ \E id \in InvoiceIds, total_gross \in Amounts, amount_paid \in Amounts :
          Invoice_update(id, total_gross, amount_paid)

SpecInvoice == Init /\ [][NextInvoice]_vars

(* SpecSettings: saves of fresh and of loaded ClinicSettings instances,       *)
(* loads, and updates through the view.                                      *)

ClinicNames == {"Healthcare Clinic", "North Clinic", "South Clinic"}
InstancePks == {NoId, 1, 2}
SettingsInstances ==
    {[pk |-> pk, clinic_name |-> name, include_logo_in_reports |-> logo] :
        pk \in InstancePks, name \in ClinicNames, logo \in BOOLEAN}
SettingsBodies ==
    {[clinic_name |-> name] : name \in ClinicNames}
      \cup {[include_logo_in_reports |-> logo] : logo \in BOOLEAN}

NextSettings ==
    \/ \E instance \in SettingsInstances, force_insert \in BOOLEAN :
          Settings_save(instance, force_insert)
    \/ Settings_load
    \/ \E data \in SettingsBodies : Settings_update(data)

SpecSettings == Init /\ [][NextSettings]_vars

(* SpecUpcoming: appointments of two patients and practitioners before, at  *)
(* and after the end of a one-day window, the clock before and after the     *)
(* first start, and find_upcoming with and without its filters.              *)

UpcomingNowPoints == {120, 130}

UpcomingCreateInputs ==
    {[patient_id |-> who[1], practitioner_id |-> who[2], start |-> s, end |-> s + 60] :
        who \in {<<"pt1", "dr1">>, <<"pt2", "dr2">>}, s \in {120, 1500, 1600}}

UpcomingUpdateInputs == {[status |-> "cancelled"]}

\* <<patient_id, practitioner_id>> as passed to find_upcoming
UpcomingFilters == {<<"None", "None">>, <<"pt1", "None">>, <<"None", "dr2">>}

NextUpcoming ==
    \/ \E data \in UpcomingCreateInputs : Create(data)
    \/ \E id \in Ids, data \in UpcomingUpdateInputs : Update(id, data)
    \/ \E by \in UpcomingFilters, days_ahead \in {0, 1} :
          find_upcoming(by[1], by[2], days_ahead)
    \/ \E t \in UpcomingNowPoints : Tick(t)

SpecUpcoming == Init /\ [][NextUpcoming]_vars

(* SpecCascade: appointments of two patients created, read, updated and      *)
(* deleted through the service while patients are deleted.                    *)

CascadeCreateInputs ==
    {[patient_id |-> pt, practitioner_id |-> "dr1", start |-> s, end |-> s + 60] :
        pt \in {"pt1", "pt2"}, s \in {120, 180}}

CascadeUpdateInputs == {[status |-> "booked"], [start |-> 90], [start |-> 300]}

NextCascade ==
    \/ \E data \in CascadeCreateInputs : Create(data)
    \/ \E id \in Ids, data \in CascadeUpdateInputs : Update(id, data)
    \/ \E id \in Ids : Delete(id)
    \/ \E id \in Ids : Repository_get_by_id(id)
    \/ \E pk \in {"pt1", "pt2"} : Patient_destroy(pk)
    \/ \E id \in Ids : CacheExpire(id)

SpecCascade == Init /\ [][NextCascade]_vars

(* SpecTimes: appointments created at [120, 180) and over-long, then moved   *)
(* by updates of start alone, of end alone and of both, to times before,     *)
(* inside and more than a day after the stored ones.                         *)

TimesCreateInputs ==
    {[patient_id |-> "pt1", practitioner_id |-> dr, start |-> 120, end |-> e] :
        dr \in {"dr1", "dr2"}, e \in {180, 1600}}

TimesUpdateInputs ==
    {[start |-> t] : t \in {150, 170}}
    \cup {[end |-> t] : t \in {100, 160, 1600}}
    \cup {[start |-> 170, end |-> 160]}

NextTimes ==
    \/ \E data \in TimesCreateInputs : Create(data)
    \/ \E id \in Ids, data \in TimesUpdateInputs : Update(id, data)

SpecTimes == Init /\ [][NextTimes]_vars

(* SpecConcurrent: two workers serving creations, cancellations and          *)
(* completions of one practitioner's appointments at the same time.           *)

Requests == {"r1", "r2"}

ConcurrentCreateInputs ==
    {[patient_id |-> "pt1", practitioner_id |-> "dr1", status |-> st,
      start |-> s, end |-> s + 60] :
        st \in {"booked", "cancelled"}, s \in {120, 150, 180}}

NextConcurrent ==
    \/ \E r \in Requests, data \in ConcurrentCreateInputs : begin_create(r, data)
    \/ \E r \in Requests : finish_create(r)
    \/ \E r \in Requests, op \in {"cancel", "fulfill"}, id \in Ids :
          begin_status_action(r, op, id)
    \/ \E r \in Requests : finish_status_action(r)

SpecConcurrent == Init /\ [][NextConcurrent]_vars

-----------------------------------------------------------------------------
(* Claims *)

Overlap(a, b) == a.start < b.end /\ a.end > b.start

TerminalStatuses == {"fulfilled", "cancelled", "noshow", "entered-in-error"}

\* C1: after any sequence of service operations no practitioner has two
\* distinct stored appointments that are both in an active status and whose
\* time ranges overlap.
C1_NoDoubleBooking ==
    \A a \in DOMAIN appts, b \in DOMAIN appts :
        (/\ a # b
         /\ appts[a].practitioner_id = appts[b].practitioner_id
         /\ appts[a].status \in {"proposed", "pending", "booked", "arrived", "checked-in"}
         /\ appts[b].status \in {"proposed", "pending", "booked", "arrived", "checked-in"})
        => ~Overlap(appts[a], appts[b])

\* C2: an update changes the stored status from s to a different t only if
\* t is listed for s in the transition table; every other requested status
\* change raises ValidationError and leaves the stored appointment unchanged.
C2_UpdateFollowsTable ==
    [][ret'.op = "update" =>
          \* a status that changed moved along the table
          /\ \A id \in DOMAIN appts \cap DOMAIN appts' :
                appts'[id].status # appts[id].status
                    => appts'[id].status \in valid_transitions[appts[id].status]
          \* a call that was not refused did not ask for an unlisted change
          /\ \/ (ret'.res = "ValidationError" /\ appts' = appts)
             \/ \A id \in DOMAIN appts, data \in UpdateInputs :
                    (/\ Has(data, "status")
                     /\ data["status"] # appts[id].status
                     /\ data["status"] \notin valid_transitions[appts[id].status])
                    => ~Update(id, data)]_vars

\* an update has moved an appointment to entered-in-error, a status only
\* an update can set
C2_Witness ==
    /\ ret = [op |-> "update", res |-> "ok"]
    /\ \E id \in DOMAIN appts : appts[id].status = "entered-in-error"

\* C3: fulfilled, cancelled, noshow and entered-in-error are terminal: once a
\* stored appointment has one of them, no later operation changes its status.
C3_TerminalStays ==
    [][\A id \in DOMAIN appts :
          (appts[id].status \in TerminalStatuses /\ id \in DOMAIN appts')
              => appts'[id].status = appts[id].status]_vars

\* an update was refused while every stored appointment was terminal
C3_Witness ==
    /\ ret = [op |-> "update", res |-> "ValidationError"]
    /\ DOMAIN appts # {}
    /\ \A id \in DOMAIN appts : appts[id].status \in TerminalStatuses

QueryTimes == {30, 60, 90, 120, 150, 180, 210}

\* C4: find_conflicts returns exactly the practitioner's stored appointments
\* in an active status that start strictly before the given end and end
\* strictly after the given start, without the excluded one; an appointment
\* that only touches the slot is no conflict, and an excluded appointment
\* never conflicts with itself.
C4_FindConflictsExact ==
    \A p \in Practitioners, s \in QueryTimes, e \in QueryTimes, ex \in {NoId} \cup Ids :
        LET found == find_conflicts(p, s, e, ex)
        IN  /\ found =
                {id \in DOMAIN appts :
                    /\ appts[id].practitioner_id = p
                    /\ appts[id].status \in
                          {"proposed", "pending", "booked", "arrived", "checked-in"}
                    /\ appts[id].start < e
                    /\ appts[id].end > s
                    /\ id # ex}
            /\ \A id \in found :
                  /\ appts[id].end # s
                  /\ appts[id].start # e
                  /\ id # ex
            \* for a proper slot, a conflict is an appointment sharing an instant with it
            /\ s < e =>
                  \A id \in DOMAIN appts :
                      (/\ appts[id].practitioner_id = p
                       /\ is_active(appts[id])
                       /\ id # ex)
                      => (id \in found <=>
                            \E t \in QueryTimes :
                                /\ appts[id].start <= t /\ t < appts[id].end
                                /\ s <= t /\ t < e)

\* two active appointments of one practitioner touch: the later one conflicts
\* with its own slot unless excluded, the earlier one does not
C4_Witness ==
    \E a \in DOMAIN appts, b \in DOMAIN appts :
        /\ a # b
        /\ appts[a].practitioner_id = appts[b].practitioner_id
        /\ is_active(appts[a]) /\ is_active(appts[b])
        /\ appts[a].end = appts[b].start
        /\ find_conflicts(appts[b].practitioner_id, appts[b].start, appts[b].end, NoId) = {b}
        /\ find_conflicts(appts[b].practitioner_id, appts[b].start, appts[b].end, b) = {}

\* C5: book_appointment succeeds exactly when the appointment exists, is
\* proposed or pending, and no other active appointment of the same
\* practitioner overlaps it; then it becomes booked with both participant
\* statuses accepted; otherwise ValidationError and nothing changes.
C5_BookExactly ==
    [][\A id \in Ids :
          (ret'.op = "book" /\ book_appointment(id)) =>
              LET bookable ==
                      /\ id \in DOMAIN appts
                      /\ appts[id].status \in {"proposed", "pending"}
                      /\ ~\E o \in DOMAIN appts \ {id} :
                            /\ appts[o].practitioner_id = appts[id].practitioner_id
                            /\ appts[o].status \in
                                  {"proposed", "pending", "booked", "arrived", "checked-in"}
                            /\ Overlap(appts[o], appts[id])
              IN  IF bookable
                  THEN /\ ret'.res = "ok"
                       /\ appts' = [appts EXCEPT ![id].status = "booked",
                                                 ![id].patient_status = "accepted",
                                                 ![id].practitioner_status = "accepted"]
                  ELSE /\ ret'.res = "ValidationError"
                       /\ appts' = appts]_vars

\* a booking succeeded beside another active appointment of the practitioner
C5_Witness ==
    /\ ret = [op |-> "book", res |-> "ok"]
    /\ \E id \in DOMAIN appts, o \in DOMAIN appts :
          /\ id # o
          /\ appts[id].status = "booked"
          /\ appts[id].patient_status = "accepted"
          /\ appts[id].practitioner_status = "accepted"
          /\ appts[o].practitioner_id = appts[id].practitioner_id
          /\ is_active(appts[o])

\* C6: the answer of check_availability is True exactly when find_conflicts
\* for the same practitioner and slot is empty at the time of the call.
\* (No operation but the clock runs between the call and the state the
\* answer is read in, and the clock does not change the table.)
C6_AvailabilityTruthful ==
    ret.op = "check_availability" =>
        (ret.res = "True"
            <=> find_conflicts(ret.practitioner_id, ret.start, ret.end, NoId) = {})

C8_CancelOnlyActive ==
    [][\A id \in DOMAIN appts, r \in Reasons :
          (ret'.op = "cancel" /\ ret'.res = "ok" /\ cancel_appointment(id, r)) =>
              appts[id].status \in
                  {"proposed", "pending", "booked", "arrived", "checked-in"}]_vars

\* C9: a delete through the service or the destroy endpoint is refused (the
\* appointment stays) when the status is fulfilled, or when start is before
\* now and the status is neither cancelled nor noshow; otherwise the
\* appointment is removed.
C9_DeleteRefusal ==
    [][\A id \in DOMAIN appts :
          LET refused ==
                  \/ appts[id].status = "fulfilled"
                  \/ (appts[id].start < now /\ appts[id].status \notin {"cancelled", "noshow"})
          IN  /\ (ret'.op = "delete" /\ Delete(id)) =>
                    IF refused
                    THEN ret'.res = "ValidationError" /\ appts' = appts
                    ELSE ret'.res = "True" /\ appts' = Drop(appts, id)
              /\ (ret'.op = "destroy" /\ destroy(id)) =>
                    IF refused
                    THEN ret'.res = "400" /\ appts' = appts
                    ELSE ret'.res = "204" /\ appts' = Drop(appts, id)]_vars

\* a delete has been refused although no appointment is fulfilled: the
\* refusal was for an appointment whose start has passed
C9_Witness ==
    /\ ret = [op |-> "delete", res |-> "ValidationError"]
    /\ appts # <<>>
    /\ \A id \in DOMAIN appts :
          appts[id].status \in {"booked", "cancelled"} /\ appts[id].start < now

\* C10: create is rejected with ValidationError and stores nothing when a
\* required field is missing, start >= end, start is more than 5 minutes
\* before now, or end - start exceeds 24 hours (1440 minutes); a request
\* with none of these and no conflicting active appointment is stored.
C10_CreateValidation ==
    [][\A data \in TimingCreateInputs :
          (ret'.op = "create" /\ Create(data)) =>
              LET rejected ==
                      \/ RequiredFields \ DOMAIN data # {}
                      \/ data["start"] >= data["end"]
                      \/ now - data["start"] > 5
                      \/ data["end"] - data["start"] > 1440
                  conflict ==
                      \E id \in DOMAIN appts :
                          /\ appts[id].practitioner_id = data["practitioner_id"]
                          /\ appts[id].status \in
                                {"proposed", "pending", "booked", "arrived", "checked-in"}
                          /\ appts[id].start < data["end"]
                          /\ appts[id].end > data["start"]
              IN  /\ rejected => (ret'.res = "ValidationError" /\ appts' = appts)
                  /\ (~rejected /\ ~conflict) =>
                        /\ ret'.res = "ok"
                        /\ \A id \in DOMAIN appts : appts'[id] = appts[id]
                        /\ \E id \in DOMAIN appts' \ DOMAIN appts :
                              \A k \in RequiredFields : appts'[id][k] = data[k]]_vars

\* an appointment starting exactly 5 minutes before the clock and lasting
\* exactly 24 hours has been stored
C10_Witness ==
    /\ ret = [op |-> "create", res |-> "ok"]
    /\ now = 60
    /\ \E id \in DOMAIN appts : appts[id].start = 55 /\ appts[id].end = 1495

\* C11: check_in_appointment succeeds exactly when the status is booked and
\* start - 30 <= now < end, and then sets status checked-in and
\* patient_status accepted; otherwise it raises ValidationError and the
\* appointment is unchanged.
C11_CheckInWindow ==
    [][\A id \in DOMAIN appts :
          (ret'.op = "check_in" /\ check_in_appointment(id)) =>
              IF /\ appts[id].status = "booked"
                 /\ appts[id].start - 30 <= now
                 /\ now < appts[id].end
              THEN /\ ret'.res = "ok"
                   /\ appts' = [appts EXCEPT ![id].status = "checked-in",
                                              ![id].patient_status = "accepted"]
              ELSE ret'.res = "ValidationError" /\ appts' = appts]_vars

\* a check-in went through at the minute the window opens
C11_Witness ==
    /\ ret = [op |-> "check_in", res |-> "ok"]
    /\ now = 70
    /\ \E id \in DOMAIN appts :
          /\ appts[id].status = "checked-in"
          /\ appts[id].patient_status = "accepted"
          /\ appts[id].start = 100

\* C12: mark_as_noshow succeeds only when the status is booked, checked-in
\* or arrived and end <= now, and then sets status noshow; otherwise it
\* raises ValidationError and the appointment is unchanged.
C12_NoShowAfterEnd ==
    [][\A id \in DOMAIN appts :
          (ret'.op = "noshow" /\ mark_as_noshow(id)) =>
              IF /\ appts[id].status \in {"booked", "checked-in", "arrived"}
                 /\ appts[id].end <= now
              THEN /\ ret'.res = "ok"
                   /\ appts' = [appts EXCEPT ![id].status = "noshow"]
              ELSE ret'.res = "ValidationError" /\ appts' = appts]_vars

\* an appointment has been marked no-show at the minute it ends
C12_Witness ==
    /\ ret = [op |-> "noshow", res |-> "ok"]
    /\ \E id \in DOMAIN appts : appts[id].status = "noshow" /\ appts[id].end = now

\* C13: mark_as_arrived changes the status only from booked or checked-in,
\* mark_as_fulfilled only from arrived, checked-in or booked; on any other
\* status they raise ValidationError and leave the appointment unchanged.
C13_ArrivedFulfilledSources ==
    [][\A id \in DOMAIN appts :
          /\ (ret'.op = "arrive" /\ mark_as_arrived(id)) =>
                IF appts[id].status \in {"booked", "checked-in"}
                THEN appts' = [appts EXCEPT ![id].status = "arrived"]
                ELSE ret'.res = "ValidationError" /\ appts' = appts
          /\ (ret'.op = "fulfill" /\ mark_as_fulfilled(id)) =>
                IF appts[id].status \in {"arrived", "checked-in", "booked"}
                THEN appts' = [appts EXCEPT ![id].status = "fulfilled"]
                ELSE ret'.res = "ValidationError" /\ appts' = appts]_vars

\* a checked-in patient has been marked arrived
C13_Witness ==
    /\ ret = [op |-> "arrive", res |-> "ok"]
    /\ \E id \in DOMAIN appts :
          appts[id].status = "arrived" /\ appts[id].patient_status = "accepted"

\* C14: get_practitioner_schedule(practitioner, date) returns exactly the
\* practitioner's currently stored appointments whose start falls on that
\* date, whatever creations, updates, deletions and cancellations preceded.
\* (No operation but the clock runs between the call and the state the
\* answer is read in, and the clock does not change the table.)
C14_ScheduleCurrent ==
    ret.op = "get_practitioner_schedule" =>
        ret.res = {appts[id] : id \in {i \in DOMAIN appts :
                      /\ appts[i].practitioner_id = ret.practitioner_id
                      /\ appts[i].start \div 1440 = ret.date}}

\* C15: a PATCH that supplies the priority alone succeeds and changes
\* exactly the priority, leaving status, start, end and the participants
\* unchanged.
C15_PatchSubset ==
    [][\A format \in Formats, id \in DOMAIN appts :
          \A data \in PriorityBodies(format) :
              (ret'.op = "PATCH" /\ partial_update(format, id, data)) =>
                  /\ ret'.res = "200"
                  /\ appts' = [appts EXCEPT ![id].priority = data["priority"]]]_vars

\* C16: in the FHIR and in the standard format, a creation request naming
\* an existing patient and practitioner, with start < end, a start that is
\* not past and no conflicting appointment, is stored and answered 201.
C16_CreateBothFormats ==
    [][\A format \in Formats :
          \A data \in CreateBodies(format) :
              (/\ ret'.op = "POST"
               /\ create(format, data)
               /\ IF format = "standard"
                  THEN Has(data, "patient") /\ Has(data, "practitioner")
                  ELSE Has(data, "resourceType")
               /\ data["start"] < data["end"]
               /\ data["start"] >= now
               /\ find_conflicts("dr1", data["start"], data["end"], NoId) = {})
              => /\ ret'.res = "201"
                 /\ \E id \in DOMAIN appts' \ DOMAIN appts :
                       /\ appts'[id].start = data["start"]
                       /\ appts'[id].end = data["end"]
                       /\ appts'[id].patient_id = "pt1"
                       /\ appts'[id].practitioner_id = "dr1"]_vars

\* C17: no two stored practitioners share an email or a non-empty NPI; a
\* create or update that would introduce such a duplicate raises
\* ValidationError and stores nothing; an update that re-submits the
\* practitioner's own email or NPI is accepted.
C17_PractitionerUnique ==
    /\ [](\A a \in DOMAIN practitioners, b \in DOMAIN practitioners :
            a # b =>
                /\ practitioners[a].email # practitioners[b].email
                /\ practitioners[a].npi = practitioners[b].npi
                       => practitioners[a].npi \in {"", "None"})
    /\ [][/\ \A data \in PractitionerCreateInputs :
              (/\ ret'.op = "practitioner_create"
               /\ Practitioner_create(data)
               /\ Has(data, "phone")
               /\ \E b \in DOMAIN practitioners :
                     \/ practitioners[b].email = data["email"]
                     \/ Truthy(data, "npi") /\ practitioners[b].npi = data["npi"])
              => (ret'.res = "ValidationError" /\ practitioners' = practitioners)
          /\ \A id \in DOMAIN practitioners, data \in PractitionerUpdateInputs :
              (ret'.op = "practitioner_update" /\ Practitioner_update(id, data)) =>
                  /\ (\E b \in DOMAIN practitioners \ {id} :
                         \/ Has(data, "email") /\ practitioners[b].email = data["email"]
                         \/ Truthy(data, "npi") /\ practitioners[b].npi = data["npi"])
                      => (ret'.res = "ValidationError" /\ practitioners' = practitioners)
                  /\ (\A k \in DOMAIN data \cap {"email", "npi"} :
                         data[k] = practitioners[id][k])
                      => /\ ret'.res = "ok"
                         /\ practitioners' =
                               [practitioners EXCEPT ![id] = SetAttrs(@, data)]]_vars

\* a practitioner has re-submitted its own NPI with a new specialization
\* while another practitioner is stored
C17_Witness ==
    /\ ret = [op |-> "practitioner_update", res |-> "ok"]
    /\ Cardinality(DOMAIN practitioners) = 2
    /\ \E id \in DOMAIN practitioners :
          /\ practitioners[id].specialization = "Neurology"
          /\ practitioners[id].npi = "111"

\* C18: a report of generate_report is created pending, then marked
\* processing, then completed or failed: when the call returns the report
\* is completed with its file set, record_count the number of data records
\* and completed_at set; when it raises the report is failed with
\* error_message set; no finished call leaves a report pending or
\* processing.
C18_ReportLifecycle ==
    /\ [](call.pc = "idle" =>
            \A id \in DOMAIN reports : reports[id].status \in {"completed", "failed"})
    /\ [][/\ \A id \in DOMAIN reports' \ DOMAIN reports :
                reports'[id].status = "pending"
          /\ \A id \in DOMAIN reports :
                reports'[id].status # reports[id].status =>
                    <<reports[id].status, reports'[id].status>> \in
                        {<<"pending", "processing">>, <<"processing", "completed">>,
                         <<"processing", "failed">>}
          /\ (call.pc = "processing" /\ call'.pc = "idle") =>
                /\ ret'.op = "generate_report" /\ ret'.id = call.id
                /\ ret'.res = "ok" =>
                      /\ reports'[call.id].status = "completed"
                      /\ reports'[call.id].file # NoFile
                      /\ reports'[call.id].record_count = ret'.count
                      /\ reports'[call.id].completed_at = <<now>>
                /\ ret'.res = "raised" =>
                      /\ reports'[call.id].status = "failed"
                      /\ reports'[call.id].error_message = ret'.error
                      /\ ret'.error # ""
                /\ (reports[call.id].report_type \notin ReportTypes
                      \/ Lower(reports[call.id].format) \notin Strategies) =>
                      ret'.res = "raised"]_vars

\* one call has returned a completed report of two records and another
\* has raised and left its report failed
C18_Witness ==
    /\ call.pc = "idle"
    /\ \E a \in DOMAIN reports, b \in DOMAIN reports :
          /\ reports[a].status = "completed" /\ reports[a].record_count = 2
          /\ reports[b].status = "failed"
          /\ reports[b].error_message = "Unsupported format"

\* C19: download returns file content only for a completed report with a
\* file; for a pending, processing or failed report it answers 400 without
\* content, for a completed report without a file 404.
C19_DownloadOnlyCompleted ==
    ret.op = "download" =>
        /\ ret.content => (ret.status = "completed" /\ ret.file # NoFile)
        /\ ret.status \in {"pending", "processing", "failed"} =>
              (ret.res = "400" /\ ~ret.content)
        /\ (ret.status = "completed" /\ ret.file = NoFile) =>
              (ret.res = "404" /\ ~ret.content)

\* a completed report with its file has been served while a completed
\* report without a file is stored
C19_Witness ==
    /\ ret.op = "download" /\ ret.res = "200" /\ ret.content
    /\ \E id \in DOMAIN reports :
          reports[id].status = "completed" /\ reports[id].file = NoFile

\* Decimal.__add__ on two-place values
DecAdd(a, b) ==
    IF a.c + b.c < 100 THEN Dec(a.u + b.u, a.c + b.c)
    ELSE Dec(a.u + b.u + 1, a.c + b.c - 100)

\* d <= 0
DecNonPositive(d) == d.u < 0 \/ (d.u = 0 /\ d.c = 0)

\* C20: every invoice written by Invoice.save has balance_due = total_gross -
\* amount_paid (balance_due + amount_paid gives back total_gross), whatever
\* balance_due held before the save, and is_paid() is true exactly when
\* amount_paid >= total_gross, that is when the saved balance_due is <= 0.
C20_BalanceDue ==
    \A id \in DOMAIN invoices :
          LET invoice == invoices[id]
          IN  /\ DecAdd(invoice.balance_due, invoice.amount_paid) = invoice.total_gross
              /\ invoice.balance_due.c \in 0..99
              /\ is_paid(invoice) <=> DecNonPositive(invoice.balance_due)
              /\ is_paid(invoice) <=>
                    (invoice.amount_paid.u > invoice.total_gross.u
                     \/ (invoice.amount_paid.u = invoice.total_gross.u
                         /\ invoice.amount_paid.c >= invoice.total_gross.c))

\* an over-paid invoice was saved over a balance that was 29.75 before:
\* 20.50 - 50.25 = -29.75
C20_Witness ==
    /\ ret.op = "invoice_update" /\ ret.res = "ok"
    /\ ret.before = Dec(29, 75)
    /\ invoices[ret.id].total_gross = Dec(20, 50)
    /\ invoices[ret.id].amount_paid = Dec(50, 25)
    /\ invoices[ret.id].balance_due = Dec(-30, 25)
    /\ is_paid(invoices[ret.id])

\* C21: ClinicSettings is a singleton: after any saves (of loaded and of
\* freshly constructed instances) and loads at most one row exists and its
\* primary key is 1; load returns that row and creates it with the default
\* values when it is absent.
C21_SettingsSingleton ==
    /\ [](DOMAIN settings \subseteq {1} /\ \A pk \in DOMAIN settings : settings[pk].pk = 1)
    /\ [][Settings_load =>
            /\ 1 \in DOMAIN settings' /\ ret'.res = settings'[1]
            /\ 1 \in DOMAIN settings => settings' = settings
            /\ 1 \notin DOMAIN settings => settings'[1] = DefaultSettings(1)]_vars

\* a freshly constructed instance (no pk) has been saved without
\* force_insert and is the one stored row, under pk 1
C21_Witness ==
    /\ ret.op = "settings_save" /\ ret.res = "ok" /\ ret.instance.pk = NoId
    /\ ret.instance.clinic_name = "South Clinic"
    /\ DOMAIN settings = {1}
    /\ settings[1].clinic_name = "South Clinic"
    /\ ~ret.force_insert

\* the rows in a list
Range(list) == {list[i] : i \in DOMAIN list}

\* C22: find_upcoming returns exactly the stored appointments whose start
\* lies between now and now plus days_ahead days, whose status is proposed,
\* pending, booked or waitlist and which match the filters given, each once,
\* in ascending start; no appointment that started in the past is returned.
C22_FindUpcomingExact ==
    [][ret'.op = "find_upcoming" =>
        \A by \in UpcomingFilters, days_ahead \in {0, 1} :
           find_upcoming(by[1], by[2], days_ahead) =>
              LET list == ret'.res
                  patient_id == by[1]
                  practitioner_id == by[2]
              IN  /\ \A id \in DOMAIN appts :
                        appts[id] \in Range(list) <=>
                           /\ now <= appts[id].start
                           /\ appts[id].start <= now + days_ahead * 1440
                           /\ appts[id].status \in {"proposed", "pending", "booked", "waitlist"}
                           /\ patient_id = "None" \/ appts[id].patient_id = patient_id
                           /\ practitioner_id = "None"
                                 \/ appts[id].practitioner_id = practitioner_id
                  /\ \A row \in Range(list) : \E id \in DOMAIN appts : appts[id] = row
                  /\ \A row \in Range(list) : row.start >= now
                  /\ \A i, j \in DOMAIN list :
                        i < j => list[i].start <= list[j].start /\ list[i] # list[j]]_vars

\* find_upcoming at 130 for one day returned the appointment starting at the
\* end of the window and left out the stored one that started at 120
C22_Witness ==
    /\ ret.op = "find_upcoming" /\ ret.days_ahead = 1 /\ ret.patient_id = "None"
    /\ ret.practitioner_id = "None"
    /\ now = 130
    /\ Len(ret.res) = 1 /\ ret.res[1].start = 1500
    /\ \E id \in DOMAIN appts : appts[id].start = 120 /\ appts[id].status = "proposed"
    /\ \A id \in DOMAIN appts : appts[id] = ret.res[1] \/ appts[id].start = 120

\* C23: BaseService.update with an id that matches no stored entity returns
\* None and BaseService.delete returns False, no validation hook raises and
\* the table stays as it is; delete returns True exactly when the entity
\* was stored and has been removed.
C23_MissingIdIsNoOp ==
    [][/\ \A id \in Ids, data \in CascadeUpdateInputs :
            (ret'.op = "update" /\ Update(id, data) /\ id \notin DOMAIN appts)
                => (ret'.res = "None" /\ appts' = appts)
       /\ \A id \in Ids :
            (ret'.op = "delete" /\ Delete(id)) =>
                /\ id \notin DOMAIN appts => (ret'.res = "False" /\ appts' = appts)
                /\ ret'.res = "True" <=>
                      (id \in DOMAIN appts /\ id \notin DOMAIN appts')]_vars

\* C26: get_by_id never serves a stale entity: after any creations,
\* updates, deletions and cascading deletions of a patient it returns an
\* entity equal to the stored row of that id, and None when no row has it.
C26_ByIdCacheFresh ==
    [][\A id \in Ids :
          (ret'.op = "get_by_id" /\ Repository_get_by_id(id)) =>
              ret'.res = IF id \in DOMAIN appts THEN <<appts[id]>> ELSE <<>>]_vars

\* C27: after any creations and updates every stored appointment has start
\* strictly before end; an update that gives only start, or only end, and
\* would put start at or after the other, stored, value raises
\* ValidationError and changes nothing.
C27_StartBeforeEnd ==
    /\ [](\A id \in DOMAIN appts : appts[id].start < appts[id].end)
    /\ [][\A id \in DOMAIN appts, data \in TimesUpdateInputs :
            (/\ ret'.op = "update"
             /\ Update(id, data)
             /\ \/ DOMAIN data = {"start"} /\ data["start"] >= appts[id].end
                \/ DOMAIN data = {"end"} /\ appts[id].start >= data["end"])
            => (ret'.res = "ValidationError" /\ appts' = appts)]_vars

\* the one stored appointment was moved to [150, 160) by an update of start
\* alone and one of end alone, and a later update was refused
C27_Witness ==
    /\ DOMAIN appts = {1}
    /\ appts[1].start = 150 /\ appts[1].end = 160
    /\ ret = [op |-> "update", res |-> "ValidationError"]

\* C28: the 24-hour limit of creation is kept by updates: after any
\* creations and updates every stored appointment has end - start <= 24
\* hours.
C28_DurationLimitKept ==
    \A id \in DOMAIN appts :
        (appts[id].end - appts[id].start) * 60 <= MaxDurationHours * 3600

\* C24: of two concurrent creations for the same practitioner with
\* overlapping time ranges and active statuses at most one stores an
\* appointment: no creation stores an active appointment that overlaps a
\* stored active appointment of its practitioner.
C24_ConcurrentCreate ==
    [][\A id \in DOMAIN appts' \ DOMAIN appts :
          is_active(appts'[id]) =>
              ~\E other \in DOMAIN appts :
                  /\ appts[other].practitioner_id = appts'[id].practitioner_id
                  /\ is_active(appts[other])
                  /\ Overlap(appts[other], appts'[id])]_vars

\* C25: when status actions on one appointment run concurrently every
\* change of the stored status is a transition of the table; the stored
\* status never moves from one terminal status to another.
C25_ConcurrentTransitions ==
    [][\A id \in DOMAIN appts \cap DOMAIN appts' :
          appts'[id].status # appts[id].status =>
              /\ _is_valid_status_transition(appts[id].status, appts'[id].status)
              /\ ~(appts[id].status \in TerminalStatuses
                     /\ appts'[id].status \in TerminalStatuses)]_vars

====
